---- MODULE Spec2Model ----
(***************************************************************************)
(* Model of the Patterns three-layer pipeline (src/app.py and              *)
(* src/patterns/*.py).  Texts are TLA+ strings handled character by        *)
(* character with Len, SubSeq and \o, so that the code's str and re        *)
(* operations are computed as Python computes them.                        *)
(***************************************************************************)
EXTENDS Integers, Sequences, FiniteSets, TLC

VARIABLES
    text,             \* process_pattern argument: the user's text
    model_name,       \* process_pattern argument: the selected model
    GEMINI_API_KEY,   \* the environment variable os.getenv reads
    pc,               \* where process_pattern stands: start, L1, L2, L3, done
    algebraic_expr,   \* local of process_pattern (Layer 1 output)
    math_report,      \* local of process_pattern (Layer 2 report)
    pytorch_code,     \* local of process_pattern (Layer 3 output)
    composition,      \* local of process_pattern (Layer 2 schedule)
    ret,              \* what process_pattern returned or raised, once done
    log,              \* history of clients built, model calls and stage ends
    fn,               \* pure-function checks: the function applied
    fn_arg,           \* pure-function checks: its argument
    fn_ret            \* pure-function checks: its result

pipeline == <<text, model_name, GEMINI_API_KEY, pc, algebraic_expr, math_report,
              pytorch_code, composition, ret, log>>

vars == <<text, model_name, GEMINI_API_KEY, pc, algebraic_expr, math_report,
          pytorch_code, composition, ret, log, fn, fn_arg, fn_ret>>

(***************************************************************************)
(* Bounds                                                                  *)
(***************************************************************************)
\* the number of fragments a text of the marker-stripping check is assembled from
MaxFrags == 5

\* the number of tracks in a score of the rendering check
MaxTracks == 3

(***************************************************************************)
(* Evaluation idiom.  TLC may evaluate a LET name or an operator argument  *)
(* anew at every use; a name bound by  x \in {e}  is evaluated once, so    *)
(*     CHOOSE it \in { body : x \in {e} } : TRUE                           *)
(* is "let x be e in body".  A name that depends on an earlier one is      *)
(* bound through a tuple:  <<x, y>> \in { <<u, f(u)>> : u \in {e} }.        *)
(* Loops over the characters of a text are written with sets of positions  *)
(* rather than by recursion, and the rounds of a loop are chained four to  *)
(* a call, which keeps the evaluation depth small.                         *)
(***************************************************************************)
Min(S) == CHOOSE i \in S : \A j \in S : i <= j
Max(S) == CHOOSE i \in S : \A j \in S : i >= j

(***************************************************************************)
(* Python str primitives                                                   *)
(***************************************************************************)
\* s[i-1:j] for 1-based i, j: clipped to the string like a Python slice
Slice(str, first, last) ==
    (CHOOSE it \in { IF i > (IF j > Len(s) THEN Len(s) ELSE j)
           THEN ""
           ELSE SubSeq(s, i, IF j > Len(s) THEN Len(s) ELSE j)
         : s \in {str}, i \in {IF first < 1 THEN 1 ELSE first}, j \in {last} } : TRUE)

\* s[i:i+1]
CharAt(str, i) == Slice(str, i, i)

\* s[n:]
DropFirst(str, n) == (CHOOSE it \in { Slice(s, n + 1, Len(s)) : s \in {str} } : TRUE)

\* s[:-n]
DropLast(str, n) == (CHOOSE it \in { Slice(s, 1, Len(s) - n) : s \in {str} } : TRUE)

\* s.startswith(p)
StartsWith(str, prefix) == (CHOOSE it \in { Slice(str, 1, Len(p)) = p : p \in {prefix} } : TRUE)

\* s.endswith(p)
EndsWith(str, suffix) ==
    (CHOOSE it \in { Len(s) >= Len(p) /\ Slice(s, Len(s) - Len(p) + 1, Len(s)) = p
         : s \in {str}, p \in {suffix} } : TRUE)

\* 1-based index of the first occurrence of p in s at or after position from, 0 if none
Find(str, sub, start) ==
    (CHOOSE it \in { (CHOOSE it \in { IF hits = {} THEN 0 ELSE Min(hits)
                : hits \in {{i \in from..(Len(s) - Len(p) + 1) :
                               SubSeq(s, i, i + Len(p) - 1) = p}} } : TRUE)
         : s \in {str}, p \in {sub}, from \in {start} } : TRUE)

\* first position at or after start whose character is outside the class
\* (Len(s) + 1 when the class runs to the end)
SkipClass(str, start, class) ==
    (CHOOSE it \in { CHOOSE k \in from..(Len(s) + 1) :
               /\ k = Len(s) + 1 \/ SubSeq(s, k, k) \notin class
               /\ \A j \in from..(k - 1) : SubSeq(s, j, j) \in class
         : s \in {str}, from \in {IF start < 1 THEN 1 ELSE start} } : TRUE)

\* start of the longest run of class characters that ends just before position q
RunStart(str, q, class) ==
    (CHOOSE it \in { CHOOSE k \in 1..q :
               /\ \A j \in k..(q - 1) : SubSeq(s, j, j) \in class
               /\ k = 1 \/ SubSeq(s, k - 1, k - 1) \notin class
         : s \in {str} } : TRUE)

\* parts[k], "" past position j
Part(parts, k, j) == IF k <= j THEN parts[k] ELSE ""

\* parts[i] + ... + parts[j], eight at a time and by halves above that
RECURSIVE ConcatRange(_, _, _)
ConcatRange(parts, i, j) ==
    IF j - i >= 8
    THEN ConcatRange(parts, i, (i + j) \div 2) \o ConcatRange(parts, (i + j) \div 2 + 1, j)
    ELSE ((Part(parts, i, j) \o Part(parts, i + 1, j))
          \o (Part(parts, i + 2, j) \o Part(parts, i + 3, j)))
         \o ((Part(parts, i + 4, j) \o Part(parts, i + 5, j))
             \o (Part(parts, i + 6, j) \o Part(parts, i + 7, j)))

\* A sequence written [i \in 1..n |-> e] is evaluated element by element,
\* at each use; e \o <<>> is the same sequence with its elements evaluated.
Concat(strs) == CHOOSE it \in { ConcatRange(ss, 1, Len(ss)) : ss \in {strs \o <<>>} } : TRUE

\* sep.join(parts)
Join(sep, strs) ==
    CHOOSE it \in
      { ConcatRange(ss, 1, Len(ss))
      : ss \in { [i \in 1..(2 * Len(parts) - 1) |->
                    IF i % 2 = 1 THEN parts[(i + 1) \div 2] ELSE sep] \o <<>>
                : parts \in {strs \o <<>>} } } : TRUE

\* the characters str.strip() and the regex class \s remove
STRIP_CHARS == {" ", "\t", "\n", "\r", "\f"}

\* s.strip()
Strip(str) ==
    (CHOOSE it \in { (CHOOSE it \in { IF first > Len(s) THEN ""
                  ELSE SubSeq(s, first, RunStart(s, Len(s) + 1, STRIP_CHARS) - 1)
                : first \in {SkipClass(s, 1, STRIP_CHARS)} } : TRUE)
         : s \in {str} } : TRUE)

\* s.replace(old, new) for a non-empty old: leftmost occurrences, not overlapping
RECURSIVE Replace(_, _, _)
Replace(str, old, new) ==
    (CHOOSE it \in { IF i = 0 THEN s
           ELSE SubSeq(s, 1, i - 1) \o n \o Replace(DropFirst(s, i + Len(o) - 1), o, n)
         : <<s, o, n, i>> \in {<<t, u, new, Find(t, u, 1)>> : t \in {str}, u \in {old}} } : TRUE)

UPPER == "ABCDEFGHIJKLMNOPQRSTUVWXYZ"
LOWER == "abcdefghijklmnopqrstuvwxyz"

\* c.lower() of one character
LowerChar(c) == (CHOOSE it \in { IF u = 0 THEN c ELSE SubSeq(LOWER, u, u) : u \in {Find(UPPER, c, 1)} } : TRUE)

\* s.lower()
Lower(str) ==
    Concat([i \in 1..Len(str) |-> LowerChar(SubSeq(str, i, i))])

(***************************************************************************)
(* Reasoning-marker stripping                                              *)
(***************************************************************************)
THINK_OPEN == "<think>"
THINK_CLOSE == "</think>"

\* re.sub(r"<think>.*?</think>", "", text, flags=re.DOTALL): the leftmost
\* <think> that has a </think> after it is removed up to the nearest such
\* </think>, and the scan resumes after the removed span.
RECURSIVE re_sub_think(_)
re_sub_think(txt) ==
    (CHOOSE it \in { (CHOOSE it \in { IF i = 0 \/ j = 0
                  THEN s
                  ELSE SubSeq(s, 1, i - 1)
                       \o re_sub_think(DropFirst(s, j + Len(THINK_CLOSE) - 1))
                : <<i, j>> \in {<<o, IF o = 0 THEN 0
                                     ELSE Find(s, THINK_CLOSE, o + Len(THINK_OPEN))>>
                                : o \in {Find(s, THINK_OPEN, 1)}} } : TRUE)
         : s \in {txt} } : TRUE)

\* patterns/composition.py strip_think_tags
strip_think_tags(txt) == re_sub_think(txt)

\* app.py strip_think_tags
app_strip_think_tags(txt) == (CHOOSE it \in { IF s = "" THEN "" ELSE re_sub_think(s) : s \in {txt} } : TRUE)

(***************************************************************************)
(* Python values: what json.loads returns and what the stages hand on.     *)
(* A float keeps its Python repr; a dict keeps its keys in insertion       *)
(* order.                                                                  *)
(***************************************************************************)
PyStr(s) == [t |-> "str", s |-> s]
PyInt(n) == [t |-> "int", n |-> n]
PyFloat(r) == [t |-> "float", r |-> r]
PyBool(b) == [t |-> "bool", b |-> b]
PyNone == [t |-> "None"]
PyList(items) == [t |-> "list", items |-> items]
PyDict(keys, vals) == [t |-> "dict", keys |-> keys, vals |-> vals]

\* key in d
HasKey(d, k) == \E i \in 1..Len(d.keys) : d.keys[i] = k

\* d[k] for a key that is present
DictGet(d, k) == d.vals[CHOOSE i \in 1..Len(d.keys) : d.keys[i] = k]

\* d[k] = v: a repeated key keeps its place and takes the new value
DictSet(dict, key, value) ==
    (CHOOSE it \in { IF HasKey(d, k)
           THEN PyDict(d.keys, [i \in 1..Len(d.keys) |-> IF d.keys[i] = k THEN v ELSE d.vals[i]])
           ELSE PyDict(Append(d.keys, k), Append(d.vals, v))
         : d \in {dict}, k \in {key}, v \in {value} } : TRUE)

Digits == <<"0", "1", "2", "3", "4", "5", "6", "7", "8", "9">>
DIGITS == {"0", "1", "2", "3", "4", "5", "6", "7", "8", "9"}

IsDigit(c) == c \in DIGITS

\* str(n) of a natural number
RECURSIVE NatToStr(_)
NatToStr(nat) ==
    (CHOOSE it \in { IF n < 10 THEN Digits[n + 1] ELSE NatToStr(n \div 10) \o Digits[(n % 10) + 1]
         : n \in {nat} } : TRUE)

\* str(n) of an int
IntToStr(int) == (CHOOSE it \in { IF n < 0 THEN "-" \o NatToStr(-n) ELSE NatToStr(n) : n \in {int} } : TRUE)

\* int(s) of a digit string
RECURSIVE StrToNat(_)
StrToNat(str) ==
    (CHOOSE it \in { IF s = "" THEN 0
           ELSE 10 * StrToNat(DropLast(s, 1))
                + ((CHOOSE i \in 1..10 : Digits[i] = SubSeq(s, Len(s), Len(s))) - 1)
         : s \in {str} } : TRUE)

(***************************************************************************)
(* json.loads (CPython 3.11 json.decoder / json.scanner).  Positions i, e  *)
(* are 1-based; the char offset Python reports is i - 1.  Outside the      *)
(* modelled alphabet: \b and \uXXXX escapes, exponents in numbers.         *)
(***************************************************************************)
WHITESPACE == {" ", "\t", "\n", "\r"}

\* WHITESPACE.match(s, i).end()
SkipWs(str, i) == SkipClass(str, i, WHITESPACE)

\* s.count(c, 0, n)
CountIn(str, c, n) ==
    CHOOSE it \in { Cardinality({k \in 1..n : SubSeq(s, k, k) = c}) : s \in {str} } : TRUE

\* s.rfind("\n", 0, n), 1-based, 0 if none
LastNewlineBefore(str, n) ==
    CHOOSE it \in { IF hits = {} THEN 0 ELSE Max(hits)
                  : hits \in {{k \in 1..n : SubSeq(str, k, k) = "\n"}} } : TRUE

\* str(JSONDecodeError(msg, doc, pos))
JSONDecodeErrorStr(msg, doc, pos) ==
    CHOOSE it \in { msg \o ": line " \o NatToStr(CountIn(d, "\n", p) + 1)
                        \o " column " \o NatToStr(p - (LastNewlineBefore(d, p) - 1))
                        \o " (char " \o NatToStr(p) \o ")"
                  : d \in {doc}, p \in {pos} } : TRUE

\* what a scan returns: the value v and the position e after it, or the
\* error it raises with the char offset pos
Ok(v, e) == [done |-> TRUE, ok |-> TRUE, v |-> v, e |-> e]
Err(msg, i) == [done |-> TRUE, ok |-> FALSE, msg |-> msg, pos |-> i - 1]
Stop(i) == [done |-> TRUE, ok |-> FALSE, msg |-> "StopIteration", pos |-> i - 1]

\* the state of the while loops of JSONObject and JSONArray between two
\* rounds: the next key or item is looked for from position i on, acc holds
\* what has been read, first tells the round before the loop from the others
Begin(i, acc) == [done |-> FALSE, first |-> TRUE, i |-> i, acc |-> acc]
More(i, acc) == [done |-> FALSE, first |-> FALSE, i |-> i, acc |-> acc]

\* a StopIteration of scan_once becomes "Expecting value"
ExpectingValue(res) ==
    IF ~res.ok /\ res.msg = "StopIteration"
    THEN [done |-> TRUE, ok |-> FALSE, msg |-> "Expecting value", pos |-> res.pos]
    ELSE res

\* BACKSLASH of json.decoder
BACKSLASH(esc) ==
    CASE esc = "\"" -> "\""
      [] esc = "\\" -> "\\"
      [] esc = "/"  -> "/"
      [] esc = "f"  -> "\f"
      [] esc = "n"  -> "\n"
      [] esc = "r"  -> "\r"
      [] esc = "t"  -> "\t"

IsEscape(esc) == esc \in {"\"", "\\", "/", "f", "n", "r", "t"}

IsControl(c) == c \in {"\t", "\n", "\r", "\f"}

\* where STRINGCHUNK stops: the next quote, backslash or control character
\* at or after position i, 0 if there is none
StringChunkEnd(s, i) ==
    CHOOSE it \in { IF stops = {} THEN 0 ELSE Min(stops)
                  : stops \in {{k \in i..Len(s) :
                                  SubSeq(s, k, k) \in {"\"", "\\", "\t", "\n", "\r", "\f"}}} } : TRUE

\* scanstring(s, end, strict=True): start is the position after the opening
\* quote, begin the position of the quote, acc the chunks decoded so far
RECURSIVE scanstring(_, _, _, _)
scanstring(str, start, begin, acc) ==
    CHOOSE it \in
      { CASE k = 0 -> Err("Unterminated string starting at", b)
          [] k # 0 /\ c = "\"" -> Ok(chunk, k + 1)
          [] k # 0 /\ IsControl(c) -> Err("Invalid control character at", k)
          [] k # 0 /\ c = "\\" /\ esc = "" -> Err("Unterminated string starting at", b)
          [] k # 0 /\ c = "\\" /\ IsEscape(esc) ->
               scanstring(s, k + 2, b, chunk \o BACKSLASH(esc))
          [] k # 0 /\ c = "\\" /\ esc \notin {"", "u", "b"} /\ ~IsEscape(esc) ->
               Err("Invalid \\escape", k)
      : <<s, b, k, c, esc, chunk>> \in
          { <<x[1], x[2], x[3], CharAt(x[1], x[3]), CharAt(x[1], x[3] + 1),
              IF x[3] = 0 THEN x[4] ELSE x[4] \o SubSeq(x[1], x[5], x[3] - 1)>>
          : x \in { <<t, begin, StringChunkEnd(t, i), acc, i>> : t \in {str}, i \in {start} } }
      } : TRUE

\* end of the longest run of digits starting at i
DigitsEnd(s, i) == SkipClass(s, i, DIGITS)

\* repr(float(text)) for text of the form -?int.frac
FloatRepr(intpart, frac) ==
    CHOOSE it \in { intpart \o "." \o SubSeq(f, 1, IF z <= 2 THEN 1 ELSE z - 1)
                  : <<f, z>> \in {<<g, RunStart(g, Len(g) + 1, {"0"})>> : g \in {frac}} } : TRUE

\* NUMBER_RE.match(s, i): (-?(?:0|[1-9]\d*))(\.\d+)?
match_number(str, start) ==
    CHOOSE it \in
      { CASE k = j -> Stop(i)
          [] k # j /\ CharAt(s, m) \notin {"e", "E"} ->
               IF m = k
               THEN Ok(PyInt((IF j > i THEN -1 ELSE 1) * StrToNat(SubSeq(s, j, k - 1))), k)
               ELSE Ok(PyFloat(FloatRepr(SubSeq(s, i, k - 1), SubSeq(s, k + 1, m - 1))), m)
      : <<s, i, j, k, m>> \in
          { <<y[1], y[2], y[3], y[4],
              IF CharAt(y[1], y[4]) = "." /\ IsDigit(CharAt(y[1], y[4] + 1))
              THEN DigitsEnd(y[1], y[4] + 1) ELSE y[4]>>
          : y \in { <<x[1], x[2], x[3],
                      IF CharAt(x[1], x[3]) = "0" THEN x[3] + 1 ELSE DigitsEnd(x[1], x[3])>>
                  : x \in { <<t, h, IF CharAt(t, h) = "-" THEN h + 1 ELSE h>>
                          : t \in {str}, h \in {start} } } }
      } : TRUE

RECURSIVE scan_once(_, _)
RECURSIVE JSONObject(_, _)
RECURSIVE JSONArray(_, _)

\* after a value of an object: d is the position of the next token
JSONObjectNext(s, d, dict) ==
    CASE CharAt(s, d) = "}" -> Ok(dict, d + 1)
      [] CharAt(s, d) = "," -> More(d + 1, dict)
      [] OTHER -> Err("Expecting ',' delimiter", d)

\* one round of JSONObject: the closing brace of an empty object, or a key,
\* the colon, the value and the delimiter after it
JSONObjectStep(str, state) ==
    CHOOSE it \in
      { IF st.done THEN st
        ELSE IF st.first /\ CharAt(s, q) = "}" THEN Ok(st.acc, q + 1)
        ELSE IF CharAt(s, q) # "\""
             THEN Err("Expecting property name enclosed in double quotes", q)
        ELSE IF ~key.ok THEN key
        ELSE IF CharAt(s, c) # ":" THEN Err("Expecting ':' delimiter", c)
        ELSE IF ~value.ok THEN ExpectingValue(value)
        ELSE JSONObjectNext(s, SkipWs(s, value.e), DictSet(st.acc, key.v, value.v))
      : <<s, st, q, key, c, value>> \in
          { <<z[1], z[2], z[3], z[4], z[5],
              IF z[4].ok /\ CharAt(z[1], z[5]) = ":"
              THEN scan_once(z[1], SkipWs(z[1], z[5] + 1)) ELSE z[4]>>
          : z \in { <<y[1], y[2], y[3], y[4], IF y[4].ok THEN SkipWs(y[1], y[4].e) ELSE 0>>
          : y \in { <<x[1], x[2], x[3],
                      IF ~x[2].done /\ CharAt(x[1], x[3]) = "\""
                      THEN scanstring(x[1], x[3] + 1, x[3], "") ELSE Stop(x[3])>>
          : x \in { <<t, u, IF u.done THEN 0 ELSE SkipWs(t, u.i)>>
                  : t \in {str}, u \in {state} } } } }
      } : TRUE

\* JSONObject: the rounds of the loop, four to a call
JSONObject(str, state) ==
    CHOOSE it \in
      { IF h.done THEN h ELSE JSONObject(str, h)
      : h \in { JSONObjectStep(str, g)
      : g \in { JSONObjectStep(str, f)
      : f \in { JSONObjectStep(str, e)
      : e \in { JSONObjectStep(str, state) } } } }
      } : TRUE

\* after an item of an array: d is the position of the next token
JSONArrayNext(s, d, values) ==
    CASE CharAt(s, d) = "]" -> Ok(PyList(values), d + 1)
      [] CharAt(s, d) = "," -> More(d + 1, values)
      [] OTHER -> Err("Expecting ',' delimiter", d)

\* one round of JSONArray: the closing bracket of an empty array, or an item
\* and the delimiter after it
JSONArrayStep(str, state) ==
    CHOOSE it \in
      { IF st.done THEN st
        ELSE IF st.first /\ CharAt(s, q) = "]" THEN Ok(PyList(st.acc), q + 1)
        ELSE IF ~value.ok THEN ExpectingValue(value)
        ELSE JSONArrayNext(s, SkipWs(s, value.e), Append(st.acc, value.v))
      : <<s, st, q, value>> \in
          { <<x[1], x[2], x[3],
              IF ~x[2].done /\ ~(x[2].first /\ CharAt(x[1], x[3]) = "]")
              THEN scan_once(x[1], x[3]) ELSE Stop(x[3])>>
          : x \in { <<t, u, IF u.done THEN 0 ELSE SkipWs(t, u.i)>>
                  : t \in {str}, u \in {state} } }
      } : TRUE

\* JSONArray: the rounds of the loop, four to a call
JSONArray(str, state) ==
    CHOOSE it \in
      { IF h.done THEN h ELSE JSONArray(str, h)
      : h \in { JSONArrayStep(str, g)
      : g \in { JSONArrayStep(str, f)
      : f \in { JSONArrayStep(str, e)
      : e \in { JSONArrayStep(str, state) } } } }
      } : TRUE

\* a str value from what scanstring returned
StrValue(r) == IF r.ok THEN Ok(PyStr(r.v), r.e) ELSE r

\* py_make_scanner._scan_once
scan_once(str, start) ==
    CASE CharAt(str, start) = "" -> Stop(start)
      [] CharAt(str, start) = "{" -> JSONObject(str, Begin(start + 1, PyDict(<<>>, <<>>)))
      [] CharAt(str, start) = "[" -> JSONArray(str, Begin(start + 1, <<>>))
      [] CharAt(str, start) = "\"" ->
           CHOOSE it \in { StrValue(r) : r \in {scanstring(str, start + 1, start, "")} } : TRUE
      [] CharAt(str, start) = "n" /\ Slice(str, start, start + 3) = "null" ->
           Ok(PyNone, start + 4)
      [] CharAt(str, start) = "t" /\ Slice(str, start, start + 3) = "true" ->
           Ok(PyBool(TRUE), start + 4)
      [] CharAt(str, start) = "f" /\ Slice(str, start, start + 4) = "false" ->
           Ok(PyBool(FALSE), start + 5)
      [] CharAt(str, start) = "N" /\ Slice(str, start, start + 2) = "NaN" ->
           Ok(PyFloat("nan"), start + 3)
      [] CharAt(str, start) = "I" /\ Slice(str, start, start + 7) = "Infinity" ->
           Ok(PyFloat("inf"), start + 8)
      [] CharAt(str, start) = "-" /\ Slice(str, start, start + 8) = "-Infinity" ->
           Ok(PyFloat("-inf"), start + 9)
      [] OTHER -> match_number(str, start)

\* json.loads(s): JSONDecoder.decode
json_loads(str) ==
    CHOOSE it \in
      { IF ~r.ok THEN ExpectingValue(r)
        ELSE IF SkipWs(s, r.e) # Len(s) + 1 THEN Err("Extra data", SkipWs(s, r.e))
        ELSE r
      : <<s, r>> \in { <<t, scan_once(t, SkipWs(t, 1))>> : t \in {str} } } : TRUE

(***************************************************************************)
(* More Python str primitives                                              *)
(***************************************************************************)
\* The backquote character cannot be written inside a TLA+ string: "~"
\* stands for it in every literal and input of this module (no literal of
\* the modelled code contains a "~" of its own).
BQ == "~"
FENCE == BQ \o BQ \o BQ

(***************************************************************************)
(* Exceptions and call outcomes                                            *)
(***************************************************************************)
Exc(type, msg) == [type |-> type, msg |-> msg]
Raise(exc) == [raised |-> TRUE, exc |-> exc]
Return(v) == [raised |-> FALSE, value |-> v]

\* type(v).__name__
TypeName(v) == IF v.t = "None" THEN "NoneType" ELSE v.t

\* repr(s) of a str
ReprStr(str) ==
    (CHOOSE it \in { quote \o Replace(Replace(Replace(Replace(Replace(Replace(s,
                       "\\", "\\\\"), "\n", "\\n"), "\t", "\\t"), "\r", "\\r"), "\f", "\\x0c"),
                       quote, "\\" \o quote) \o quote
         : <<s, quote>> \in {<<t, IF Find(t, "'", 1) # 0 /\ Find(t, "\"", 1) = 0
                                  THEN "\"" ELSE "'">> : t \in {str}} } : TRUE)

\* repr(v)
RECURSIVE Repr(_)
Repr(val) ==
    (CHOOSE it \in { CASE v.t = "str" -> ReprStr(v.s)
             [] v.t = "int" -> IntToStr(v.n)
             [] v.t = "float" -> v.r
             [] v.t = "bool" -> IF v.b THEN "True" ELSE "False"
             [] v.t = "None" -> "None"
             [] v.t = "list" ->
                  "[" \o Join(", ", [i \in 1..Len(v.items) |-> Repr(v.items[i])]) \o "]"
             [] v.t = "dict" ->
                  "{" \o Join(", ", [i \in 1..Len(v.keys) |->
                                       ReprStr(v.keys[i]) \o ": " \o Repr(v.vals[i])]) \o "}"
         : v \in {val} } : TRUE)

\* str(v), as an f-string substitutes it
Format(val) == (CHOOSE it \in { IF v.t = "str" THEN v.s ELSE Repr(v) : v \in {val} } : TRUE)

\* v == "literal"
EqStr(v, lit) == v.t = "str" /\ v.s = lit

\* d.get(k, default)
Get(d, k, default) == IF HasKey(d, k) THEN DictGet(d, k) ELSE default

\* obj[key] for a str key
GetItem(obj, key) ==
    CASE obj.t = "dict" ->
           IF HasKey(obj, key) THEN Return(DictGet(obj, key))
           ELSE Raise(Exc("KeyError", "'" \o key \o "'"))
      [] obj.t = "list" ->
           Raise(Exc("TypeError", "list indices must be integers or slices, not str"))
      [] obj.t = "str" ->
           Raise(Exc("TypeError", "string indices must be integers, not 'str'"))
      [] OTHER ->
           Raise(Exc("TypeError", "'" \o TypeName(obj) \o "' object is not subscriptable"))

\* iter(obj): the items a for loop visits
Iterate(obj) ==
    CASE obj.t = "list" -> Return(obj.items)
      [] obj.t = "dict" -> Return([i \in 1..Len(obj.keys) |-> PyStr(obj.keys[i])])
      [] obj.t = "str" -> Return([i \in 1..Len(obj.s) |-> PyStr(CharAt(obj.s, i))])
      [] OTHER -> Raise(Exc("TypeError", "'" \o TypeName(obj) \o "' object is not iterable"))

(***************************************************************************)
(* Composer (patterns/composition.py)                                      *)
(***************************************************************************)
\* DegradedSchedule without the raw_output entry: the variant C5 is checked against
DegradedSchedule_noraw(e, txt) ==
    PyDict(<<"original_expression", "schedule_logic", "score", "math_narrative">>,
           <<PyStr("Error parsing"), PyStr("Linear"), PyList(<<>>), PyStr("Error: " \o e)>>)

\* the fallback dict of _parse_json_safely
DegradedSchedule(e, txt) ==
    PyDict(<<"original_expression", "schedule_logic", "score", "math_narrative", "raw_output">>,
           <<PyStr("Error parsing"), PyStr("Linear"), PyList(<<>>),
             PyStr("Error: " \o e), PyStr(txt)>>)

\* text[7:] if text.startswith("```json")
strip_json_fence(txt) ==
    (CHOOSE it \in { IF StartsWith(t, FENCE \o "json") THEN DropFirst(t, 7) ELSE t : t \in {txt} } : TRUE)

\* text[3:] if text.startswith("```")
strip_open_fence(txt) ==
    (CHOOSE it \in { IF StartsWith(t, FENCE) THEN DropFirst(t, 3) ELSE t : t \in {txt} } : TRUE)

\* text[:-3] if text.endswith("```")
strip_close_fence(txt) ==
    (CHOOSE it \in { IF EndsWith(t, FENCE) THEN DropLast(t, 3) ELSE t : t \in {txt} } : TRUE)

\* strip_fences without the test for a closing fence: the variant C13 is
\* checked against
strip_fences_unclosed(txt) == strip_open_fence(strip_json_fence(Strip(txt)))

\* the text _parse_json_safely hands to json.loads
strip_fences(txt) == strip_close_fence(strip_open_fence(strip_json_fence(Strip(txt))))

\* Composer._parse_json_safely
parse_json_safely(txt) ==
    (CHOOSE it \in { IF r.ok THEN r.v
           ELSE DegradedSchedule(JSONDecodeErrorStr(r.msg, cleaned, r.pos), cleaned)
         : <<cleaned, r>> \in {<<t, json_loads(t)>> : t \in {strip_fences(txt)}} } : TRUE)

\* compose without the except clause of _parse_json_safely: the variant C6 is
\* checked against
compose_unguarded(invoked) ==
    IF invoked.raised THEN invoked
    ELSE (CHOOSE it \in { IF r.ok THEN Return(r.v)
                ELSE Raise(Exc("JSONDecodeError", JSONDecodeErrorStr(r.msg, cleaned, r.pos)))
              : <<cleaned, r>> \in {<<t, json_loads(t)>>
                                    : t \in {strip_fences(strip_think_tags(invoked.value))}} } : TRUE)

\* Composer.compose, given the outcome of self.chain.invoke
compose(invoked) ==
    IF invoked.raised THEN invoked
    ELSE Return(parse_json_safely(strip_think_tags(invoked.value)))

\* one table row of format_latex_report
table_row(track) ==
    (CHOOSE it \in { IF formula.raised THEN formula
           ELSE IF formula.value.t # "str"
                THEN Raise(Exc("AttributeError",
                               "'" \o TypeName(formula.value)
                               \o "' object has no attribute 'replace'"))
           ELSE IF voice.raised THEN voice
           ELSE IF symbol.raised THEN symbol
           ELSE IF mass.raised THEN mass
           ELSE Return("| " \o Format(voice.value) \o " | " \o BQ \o Format(symbol.value) \o BQ
                       \o " | $" \o Replace(formula.value.s, "|", "\\|") \o "$ | "
                       \o Format(mass.value) \o " |\n")
         : <<formula, voice, symbol, mass>> \in
             {<<GetItem(t, "formula"), GetItem(t, "voice"), GetItem(t, "symbol"),
                GetItem(t, "mass")>> : t \in {track}} } : TRUE)

\* the table loop of format_latex_report: the rows of the tracks, or what
\* the first failing track raises
table_loop(score) ==
    CHOOSE it \in
      { IF failed = {} THEN Return(Concat([i \in 1..Len(rows) |-> rows[i].value]))
        ELSE rows[Min(failed)]
      : <<rows, failed>> \in
          { <<r, {i \in 1..Len(r) : r[i].raised}>>
          : r \in { [i \in 1..Len(score) |-> table_row(score[i])] \o <<>> } } } : TRUE

\* table_rows reading score[0] before the loop: the variant C8 is checked against
table_rows_nonempty(score) ==
    IF score = <<>> THEN Raise(Exc("IndexError", "list index out of range"))
    ELSE table_loop(score)

table_rows(score) == table_loop(score)

Mass(track) == Format(DictGet(track, "mass"))
Formula(track) == Format(DictGet(track, "formula"))

\* master_equation with the Adversarial terms joined like the others: the
\* variant C9 is checked against
master_equation_joined(schedule_logic, tracks) ==
    "$$ J(\\theta) = \\max_\\pi ("
    \o Join(" + ", [i \in 1..Len(tracks) |->
                      Mass(tracks[i]) \o " \\cdot [" \o Formula(tracks[i]) \o "]"])
    \o ") $$"

\* the master equation of format_latex_report, for tracks the table loop accepted
master_equation(schedule_logic, tracks) ==
    (CHOOSE it \in { CASE EqStr(logic, "Orbital") ->
                  "$$ J(\\theta) = \\sum_{t} ("
                  \o Join(" + ", [i \in 1..Len(score) |->
                                    Mass(score[i]) \o " \\cdot "
                                    \o (IF (i - 1) % 2 = 0 THEN "\\sin" ELSE "\\cos")
                                    \o "(\\omega t) \\cdot [" \o Formula(score[i]) \o "]"])
                  \o ") $$"
             [] EqStr(logic, "Drag") ->
                  "$$ J(\\theta) = \\int ("
                  \o Join(" + ", [i \in 1..Len(score) |->
                                    IF i = 1
                                    THEN "(" \o Mass(score[i]) \o " \\cdot e^{-\\lambda t}) \\cdot ["
                                         \o Formula(score[i]) \o "]"
                                    ELSE "(" \o Mass(score[i])
                                         \o " \\cdot (1-e^{-\\lambda t})) \\cdot ["
                                         \o Formula(score[i]) \o "]"])
                  \o ") dt $$"
             [] EqStr(logic, "Adversarial") ->
                  "$$ J(\\theta) = \\max_\\pi ("
                  \o Join("", [i \in 1..Len(score) |->
                                 IF i = 1
                                 THEN Mass(score[i]) \o " \\cdot [" \o Formula(score[i]) \o "]"
                                 ELSE " - " \o Mass(score[i]) \o " \\cdot ["
                                      \o Formula(score[i]) \o "]"])
                  \o ") $$"
             [] OTHER ->
                  "$$ J(\\theta) = "
                  \o Join(" + ", [i \in 1..Len(score) |->
                                    Mass(score[i]) \o " \\cdot [" \o Formula(score[i]) \o "]"])
                  \o " $$"
         : logic \in {schedule_logic}, score \in {tracks} } : TRUE)

\* the report of format_latex_report once the table rows are known
report_text(logic, narrative, freq, rows, score) ==
    "### Cognitive Schedule: **" \o Format(logic) \o "**\n"
    \o "*" \o Format(narrative) \o "* (Global Accel: $\\omega="
    \o Format(freq) \o "$)\n\n"
    \o "| Function | Objective Class | Math Form | Mass ($m$) |\n"
    \o "| :--- | :--- | :--- | :---: |\n"
    \o rows
    \o "\n**Intercalation Dynamics:**\n"
    \o master_equation(logic, score)

\* Composer.format_latex_report
format_latex_report(composed) ==
    (CHOOSE it \in { (CHOOSE it \in { IF score.raised THEN score
                  ELSE (CHOOSE it \in { IF rows.raised THEN rows
                              ELSE Return(report_text(
                                       Get(comp, "schedule_logic", PyStr("Linear")),
                                       Get(comp, "math_narrative", PyStr("")),
                                       Get(comp, "global_frequency", PyFloat("1.0")),
                                       rows.value, score.value))
                            : rows \in {table_rows(score.value)} } : TRUE)
                : score \in {Iterate(Get(comp, "score", PyList(<<>>)))} } : TRUE)
         : comp \in {composed} } : TRUE)

(***************************************************************************)
(* json.dumps (patterns/code.py serialises the composition with indent=2)  *)
(***************************************************************************)
\* encode_basestring_ascii
json_dumps_str(s) ==
    "\"" \o Replace(Replace(Replace(Replace(Replace(Replace(s,
                "\\", "\\\\"), "\"", "\\\""), "\n", "\\n"), "\t", "\\t"), "\r", "\\r"),
                "\f", "\\f") \o "\""

\* float.__repr__ as the encoder writes it
json_dumps_float(r) ==
    CASE r = "nan" -> "NaN"
      [] r = "inf" -> "Infinity"
      [] r = "-inf" -> "-Infinity"
      [] OTHER -> r

\* " " * n
Spaces(n) == SubSeq("                                                  ", 1, n)

\* newline_indent of the encoder: nothing when indent is None
newline_indent(indent, level) == IF indent < 0 THEN "" ELSE "\n" \o Spaces(indent * level)

\* json.dumps(v, indent=indent) at nesting depth level; indent < 0 stands for
\* indent=None.  The items of a list and the "key": value entries of a dict
\* are encoded first.
RECURSIVE json_dumps_at(_, _, _)
json_dumps_at(val, ind, lvl) ==
    CHOOSE it \in
      { CASE v.t = "str" -> json_dumps_str(v.s)
          [] v.t = "int" -> IntToStr(v.n)
          [] v.t = "float" -> json_dumps_float(v.r)
          [] v.t = "bool" -> IF v.b THEN "true" ELSE "false"
          [] v.t = "None" -> "null"
          [] v.t = "list" ->
               IF entries = <<>> THEN "[]"
               ELSE "[" \o newline_indent(indent, level + 1)
                    \o Join(IF indent < 0 THEN ", " ELSE "," \o newline_indent(indent, level + 1), entries)
                    \o newline_indent(indent, level) \o "]"
          [] v.t = "dict" ->
               IF entries = <<>> THEN "{}"
               ELSE "{" \o newline_indent(indent, level + 1)
                    \o Join(IF indent < 0 THEN ", " ELSE "," \o newline_indent(indent, level + 1), entries)
                    \o newline_indent(indent, level) \o "}"
      : <<v, indent, level, entries>> \in
          { <<a, b, c,
              CASE a.t = "list" ->
                     [i \in 1..Len(a.items) |-> json_dumps_at(a.items[i], b, c + 1)] \o <<>>
                [] a.t = "dict" ->
                     [i \in 1..Len(a.keys) |->
                        json_dumps_str(a.keys[i]) \o ": "
                        \o json_dumps_at(a.vals[i], b, c + 1)] \o <<>>
                [] OTHER -> <<>>>>
          : a \in {val}, b \in {ind}, c \in {lvl} }
      } : TRUE

json_dumps(v, indent) == json_dumps_at(v, indent, 0)

(***************************************************************************)
(* Report cleanup (app.py clean_latex_formatting)                          *)
(***************************************************************************)
\* the regex class [\*\#\s]
DECORATION == {"*", "#"} \cup STRIP_CHARS

HEADING == "intercalation dynamics"

\* end (inclusive) of the match of `(\$+.*?\$+)` that starts with the backquote
\* at position i, 0 if there is none: the first \$+ takes the whole run of
\* dollars (up to r), .*? grows over characters other than newline, the second
\* \$+ takes a whole run of dollars followed by a backquote; failing that, the
\* first run is split between the two \$+ when a backquote follows it.
backquoted_math_end(s, i) ==
    IF CharAt(s, i) # BQ THEN 0
    ELSE (CHOOSE it \in { IF r = i + 1 THEN 0
                ELSE (CHOOSE it \in { IF cands # {}
                            THEN SkipClass(s, Min(cands), {"$"})
                            ELSE IF r - (i + 1) >= 2 /\ CharAt(s, r) = BQ THEN r
                            ELSE 0
                          : cands \in {{m \in r..Len(s) :
                                          /\ SubSeq(s, m, m) = "$"
                                          /\ \A x \in r..(m - 1) : SubSeq(s, x, x) # "\n"
                                          /\ CharAt(s, SkipClass(s, m, {"$"})) = BQ}} } : TRUE)
              : r \in {SkipClass(s, i + 1, {"$"})} } : TRUE)

\* re.sub(r'`(\$+.*?\$+)`', r'\1', text)
RECURSIVE re_sub_backquoted_math(_)
re_sub_backquoted_math(txt) ==
    (CHOOSE it \in { IF i = 0 THEN s
           ELSE (CHOOSE it \in { IF e = 0
                       THEN SubSeq(s, 1, i) \o re_sub_backquoted_math(DropFirst(s, i))
                       ELSE SubSeq(s, 1, i - 1) \o SubSeq(s, i + 1, e - 1)
                            \o re_sub_backquoted_math(DropFirst(s, e))
                     : e \in {backquoted_math_end(s, i)} } : TRUE)
         : <<s, i>> \in {<<t, Find(t, BQ, 1)>> : t \in {txt}} } : TRUE)

\* text.replace("```latex", "").replace("```markdown", "").replace("```", "")
\* followed by .replace("[$", "(").replace("$]", ")")
clean_markers(txt) ==
    Replace(Replace(Replace(Replace(Replace(txt, FENCE \o "latex", ""), FENCE \o "markdown", ""),
                            FENCE, ""), "[$", "("), "$]", ")")

\* the equation section of clean_latex_formatting, from the text after the heading
equation_section(after) ==
    (CHOOSE it \in { IF ~(StartsWith(equation_raw, "$$") \/ StartsWith(equation_raw, "\\["))
           THEN "$$\n" \o equation_raw \o "\n$$"
           ELSE equation_raw
         : equation_raw \in {Replace(Replace(Strip(after), "**", ""), "*", "")} } : TRUE)

\* the position after the heading match
\* (?:[\*\#\s]*Intercalation Dynamics\s*:?[\*\#\s]*) whose words start at q
heading_end(s, q) ==
    (CHOOSE it \in { SkipClass(s, IF CharAt(s, a) = ":" THEN a + 1 ELSE a, DECORATION)
         : a \in {SkipClass(s, q + Len(HEADING), STRIP_CHARS)} } : TRUE)

\* app.py clean_latex_formatting; the re.search is of
\* (?si)(.*?)(?:[\*\#\s]*Intercalation Dynamics\s*:?[\*\#\s]*)(.*)
clean_latex_formatting(txt) ==
    IF txt = "" THEN ""
    ELSE (CHOOSE it \in { IF q # 0
                THEN Strip(SubSeq(s, 1, RunStart(s, q, DECORATION) - 1))
                     \o "\n\n**Intercalation Dynamics:**\n\n"
                     \o equation_section(DropFirst(s, heading_end(s, q) - 1))
                ELSE re_sub_backquoted_math(s)
              : <<s, q>> \in {<<t, Find(Lower(t), HEADING, 1)>> : t \in {clean_markers(txt)}} } : TRUE)

(***************************************************************************)
(* Model provider gateway (patterns/config.py)                             *)
(***************************************************************************)
\* bool(v) of an environment value
Truthy(v) == v.t = "str" /\ v.s # ""

\* IsGemini without the lower(): the variant C3 is checked against
IsGemini_cased(name) == StartsWith(name, "gemini")

\* model_name.lower().startswith("gemini")
IsGemini(name) == StartsWith(Lower(name), "gemini")

\* ModelFactory.get_model
get_model(name, api_key) ==
    IF IsGemini(name)
    THEN IF ~Truthy(api_key)
         THEN Raise(Exc("ValueError", "GEMINI_API_KEY not found in environment variables."))
         ELSE Return("ChatGoogleGenerativeAI")
    ELSE Return("ChatOllama")

(***************************************************************************)
(* Pipeline orchestrator (app.py process_pattern)                          *)
(***************************************************************************)
Unset == [t |-> "unset"]
NotReturned == [raised |-> FALSE, pending |-> TRUE]

\* str(e)
StrOfExc(e) == e.msg

\* the three except clauses of process_pattern
except_L1(e) == Return(<<"Error L1: " \o StrOfExc(e), "", "">>)
\* except_L2 re-raising: the variant C1 is checked against
except_L2_reraise(expr, e) == Raise(e)
except_L2(expr, e) == Return(<<expr, "Error L2: " \o StrOfExc(e), "">>)
except_L3(expr, report, e) == Return(<<expr, report, "Error L3: " \o StrOfExc(e)>>)

\* history entries
BuiltClient(k) == [ev |-> "get_model", stage |-> k]
Invoked(k, input) == [ev |-> "invoke", stage |-> k, input |-> input]
Responded(k, outcome) == [ev |-> "response", stage |-> k, outcome |-> outcome]
StageOk(k, output) == [ev |-> "ok", stage |-> k, output |-> output]
StageRaised(k, e) == [ev |-> "raise", stage |-> k, exc |-> e]

\* what a stage adds to the history: the client it builds, the one call it
\* makes when the client was built, and how the stage ended
StageEvents(k, client, input, invoked, result) ==
    <<BuiltClient(k)>>
    \o (IF client.raised THEN <<>> ELSE <<Invoked(k, input), Responded(k, invoked)>>)
    \o <<IF result.raised THEN StageRaised(k, result.exc) ELSE StageOk(k, result.value)>>

\* Precheck with its two tests in the other order: the variant C2 is checked against
Precheck_reordered ==
    /\ pc = "start"
    /\ IF StartsWith(Lower(model_name), "gemini") /\ ~Truthy(GEMINI_API_KEY)
       THEN /\ ret' = Return(<<"Error: GOOGLE_API_KEY missing.", "", "">>)
            /\ pc' = "done"
       ELSE IF Strip(text) = ""
            THEN /\ ret' = Return(<<"Please enter text.", "", "">>)
                 /\ pc' = "done"
            ELSE /\ ret' = ret
                 /\ pc' = "L1"
    /\ UNCHANGED <<text, model_name, GEMINI_API_KEY, algebraic_expr, math_report,
                   pytorch_code, composition, log, fn, fn_arg, fn_ret>>

\* lines 80-86: the two preconditions and the initialisation of the locals
Precheck ==
    /\ pc = "start"
    /\ IF Strip(text) = ""
       THEN /\ ret' = Return(<<"Please enter text.", "", "">>)
            /\ pc' = "done"
       ELSE IF IsGemini(model_name) /\ ~Truthy(GEMINI_API_KEY)
            THEN /\ ret' = Return(<<"Error: GOOGLE_API_KEY missing.", "", "">>)
                 /\ pc' = "done"
            ELSE /\ ret' = ret
                 /\ pc' = "L1"
    /\ UNCHANGED <<text, model_name, GEMINI_API_KEY, algebraic_expr, math_report,
                   pytorch_code, composition, log, fn, fn_arg, fn_ret>>

\* the try body of Layer 1
layer1(client, invoked) ==
    IF client.raised THEN client
    ELSE IF invoked.raised THEN invoked
    ELSE Return(app_strip_think_tags(invoked.value))

\* lines 99-105: the report of what compose returned
report_of(composed) ==
    IF composed.t = "dict"
    THEN (CHOOSE it \in { IF raw.raised THEN raw
                ELSE Return([composition |-> composed,
                             math_report |-> clean_latex_formatting(raw.value)])
              : raw \in {format_latex_report(composed)} } : TRUE)
    ELSE Return([composition |-> composed,
                 math_report |-> "Error parsing JSON: " \o Format(composed)])

\* layer2 raising on the fallback dict: the variant C7 is checked against
layer2_escalating(client, invoked) ==
    IF client.raised THEN client
    ELSE (CHOOSE it \in { IF composed.raised THEN composed
                ELSE IF composed.value.t = "dict" /\ HasKey(composed.value, "raw_output")
                     THEN Raise(Exc("ValueError", Format(DictGet(composed.value, "math_narrative"))))
                     ELSE report_of(composed.value)
              : composed \in {compose(invoked)} } : TRUE)

\* the try body of Layer 2: the schedule and its report
layer2(client, invoked) ==
    IF client.raised THEN client
    ELSE (CHOOSE it \in { IF composed.raised THEN composed ELSE report_of(composed.value)
              : composed \in {compose(invoked)} } : TRUE)

\* the try body of Layer 3
layer3(client, invoked) ==
    IF client.raised THEN client
    ELSE IF invoked.raised THEN invoked
    ELSE Return(app_strip_think_tags(invoked.value))

\* what the model may answer a stage: a text, or an exception of the call
ModelFailures == {Exc("ConnectionError", "connection refused")}

Outcomes(responses) == {Return(r) : r \in responses} \cup {Raise(e) : e \in ModelFailures}

\* Layer1 going on to Layer 2 after its except clause: the variant C4 is
\* checked against
Layer1_continue(invoked) ==
    /\ pc = "L1"
    /\ \E client \in {get_model(model_name, GEMINI_API_KEY)} :
       \E result \in {layer1(client, invoked)} :
          /\ log' = log \o StageEvents(1, client, [text |-> text], invoked, result)
          /\ IF result.raised
             THEN /\ ret' = except_L1(result.exc)
                  /\ UNCHANGED algebraic_expr
             ELSE /\ algebraic_expr' = result.value
                  /\ UNCHANGED ret
    /\ pc' = "L2"
    /\ UNCHANGED <<text, model_name, GEMINI_API_KEY, math_report, pytorch_code,
                   composition, fn, fn_arg, fn_ret>>

\* lines 88-93
Layer1(invoked) ==
    /\ pc = "L1"
    /\ \E client \in {get_model(model_name, GEMINI_API_KEY)} :
       \E result \in {layer1(client, invoked)} :
          /\ log' = log \o StageEvents(1, client, [text |-> text], invoked, result)
          /\ IF result.raised
             THEN /\ ret' = except_L1(result.exc)
                  /\ pc' = "done"
                  /\ UNCHANGED algebraic_expr
             ELSE /\ algebraic_expr' = result.value
                  /\ pc' = "L2"
                  /\ UNCHANGED ret
    /\ UNCHANGED <<text, model_name, GEMINI_API_KEY, math_report, pytorch_code,
                   composition, fn, fn_arg, fn_ret>>

\* lines 95-107
Layer2(invoked) ==
    /\ pc = "L2"
    /\ \E client \in {get_model(model_name, GEMINI_API_KEY)} :
       \E result \in {layer2(client, invoked)} :
          /\ log' = log \o StageEvents(2, client, [algebra |-> algebraic_expr], invoked, result)
          /\ IF result.raised
             THEN /\ ret' = except_L2(algebraic_expr, result.exc)
                  /\ pc' = "done"
                  /\ UNCHANGED <<composition, math_report>>
             ELSE /\ composition' = result.value.composition
                  /\ math_report' = result.value.math_report
                  /\ pc' = "L3"
                  /\ UNCHANGED ret
    /\ UNCHANGED <<text, model_name, GEMINI_API_KEY, algebraic_expr, pytorch_code,
                   fn, fn_arg, fn_ret>>

\* lines 109-116
Layer3(invoked) ==
    /\ pc = "L3"
    /\ \E client \in {get_model(model_name, GEMINI_API_KEY)} :
       \E result \in {layer3(client, invoked)} :
          /\ log' = log \o StageEvents(3, client,
                                       [schedule_json |-> json_dumps(composition, 2)],
                                       invoked, result)
          /\ IF result.raised
             THEN /\ ret' = except_L3(algebraic_expr, math_report, result.exc)
                  /\ UNCHANGED pytorch_code
             ELSE /\ pytorch_code' = result.value
                  /\ ret' = Return(<<algebraic_expr, math_report, result.value>>)
    /\ pc' = "done"
    /\ UNCHANGED <<text, model_name, GEMINI_API_KEY, algebraic_expr, math_report,
                   composition, fn, fn_arg, fn_ret>>

(***************************************************************************)
(* Inputs of the pipeline                                                  *)
(***************************************************************************)
UserTexts == {"", " \n\t", "I feel torn"}

ModelNames == {"llama3", "gemini-2.5-flash", "Gemini-Pro"}

Credentials == {PyNone, PyStr(""), PyStr("key")}

Layer1Responses == {"5(Se ~ Ti)", "<think>weigh it</think>7Se oo 3Si", ""}

Track(voice, symbol, mass, formula) ==
    PyDict(<<"voice", "symbol", "mass", "formula", "description">>,
           <<PyStr(voice), PyStr(symbol), mass, PyStr(formula), PyStr("d")>>)

Schedule(logic, freq, score, narrative) ==
    PyDict(<<"original_expression", "schedule_logic", "global_frequency", "score",
             "math_narrative">>,
           <<PyStr("7Se oo 3Si"), PyStr(logic), freq, PyList(score), PyStr(narrative)>>)

TrackA == Track("Voice 1 (Se)", "ExplorationObjective", PyInt(5), "A")
TrackB == Track("Voice 2 (Si)", "GatheringObjective", PyInt(3), "B")
TrackPipe == Track("Voice 3 (Ti)", "ContrastObjective", PyFloat("2.5"), "|d(s, a) - d(s, b)|")

\* the objective classes of the composer's prompt, one per cognitive function
OBJECTIVE_CLASSES ==
    {"ExplorationObjective", "GatheringObjective", "ExtrapolationObjective",
     "InterpolationObjective", "ExploitationObjective", "ContrastObjective",
     "IntegrationObjective", "SelectionObjective"}

\* a track whose symbol is none of the objective classes
TrackUnmapped == Track("Voice 2 (Ne)", "CuriosityObjective", PyInt(2), "C")

Fenced(body) == FENCE \o "json\n" \o body \o "\n" \o FENCE

Layer2Responses ==
    { Fenced(json_dumps(Schedule("Adversarial", PyFloat("1.0"), <<TrackA, TrackB>>, "n"), 2)),
      json_dumps(Schedule("Orbital", PyInt(40), <<TrackPipe>>, "n"), -1),
      "<think>map Se</think>" \o json_dumps(Schedule("Drag", PyFloat("1.0"), <<>>, "n"), -1),
      "I cannot produce a schedule.",
      Fenced("{\"schedule_logic\": \"Drag\", \"score\": [,]}"),
      "{\"score\": [{\"formula\": \"\\mathcal{H}\"}]}",
      "",
      "[1, 2]",
      "{\"schedule_logic\": \"Linear\", \"score\": [{\"voice\": \"V\", \"mass\": 1}]}",
      json_dumps(Schedule("Linear", PyFloat("1.0"), <<TrackA, TrackUnmapped>>, "n"), -1) }

Layer3Responses == {"import torch", "<think>plan</think>class Agent: pass"}

Init ==
    /\ text \in UserTexts
    /\ model_name \in ModelNames
    /\ GEMINI_API_KEY \in Credentials
    /\ pc = "start"
    /\ algebraic_expr = ""
    /\ math_report = ""
    /\ pytorch_code = ""
    /\ composition = Unset
    /\ ret = NotReturned
    /\ log = <<>>
    /\ fn = "none"
    /\ fn_arg = ""
    /\ fn_ret = ""

Next ==
    \/ Precheck
    \/ \E invoked \in Outcomes(Layer1Responses) : Layer1(invoked)
    \/ \E invoked \in Outcomes(Layer2Responses) : Layer2(invoked)
    \/ \E invoked \in Outcomes(Layer3Responses) : Layer3(invoked)

Spec == Init /\ [][Next]_vars

(***************************************************************************)
(* Properties of the pipeline                                              *)
(***************************************************************************)
\* empty or whitespace only
Blank(t) == \A i \in 1..Len(t) : SubSeq(t, i, i) \in STRIP_CHARS

\* the positions of the history entries of one kind and stage
Events(ev, k) == {i \in 1..Len(log) : log[i].ev = ev /\ log[i].stage = k}

\* what stage k handed on, for a stage that ended without raising
Output(k) == log[Min(Events("ok", k))].output

\* slot k of the returned tuple when stage k ended without raising
Slot(k) == IF k = 2 THEN Output(2).math_report ELSE Output(k)

ErrorPrefix(k) == "Error L" \o NatToStr(k) \o ": "

\* the text Layer 2 hands to json.loads for a response of the model
Cleaned(outcome) == strip_fences(strip_think_tags(outcome.value))

\* the fallback Schedule of a parse failure on the text cleaned
IsDegraded(v, cleaned) ==
    /\ v.t = "dict"
    /\ Get(v, "schedule_logic", PyNone) = PyStr("Linear")
    /\ Get(v, "score", PyNone) = PyList(<<>>)
    /\ Get(v, "math_narrative", PyNone)
         = PyStr("Error: " \o JSONDecodeErrorStr(json_loads(cleaned).msg, cleaned,
                                                 json_loads(cleaned).pos))
    /\ Get(v, "raw_output", PyNone) = PyStr(cleaned)

\* C1: for a non-blank text, whatever the stages do, process_pattern returns
\* a tuple of three strings and does not raise; when stage k is the first to
\* raise, the slots before k hold what those stages produced, slot k holds
\* "Error Lk: " followed by the exception's message, and the slots after k
\* are empty.
C1_PartialTuple ==
    pc = "done" /\ ~Blank(text) =>
        /\ ~ret.raised
        /\ Len(ret.value) = 3
        /\ \A j \in 1..3 : ret.value[j] \in STRING
        /\ \A k \in 1..3 :
              Events("raise", k) # {} =>
                 /\ ret.value[k] = ErrorPrefix(k) \o log[Min(Events("raise", k))].exc.msg
                 /\ \A j \in 1..(k - 1) : ret.value[j] = Slot(j)
                 /\ \A j \in (k + 1)..3 : ret.value[j] = ""
        /\ Events("ok", 3) # {} => ret.value = <<Slot(1), Slot(2), Slot(3)>>

\* Layer 3 raised after Layers 1 and 2 filled their slots
C1_Witness ==
    /\ pc = "done"
    /\ Events("raise", 3) # {}
    /\ ret.value[1] # ""
    /\ ret.value[2] # ""
    /\ ret.value[3] = "Error L3: connection refused"

\* C2: when the text is blank, process_pattern returns exactly
\* ("Please enter text.", "", "") and no stage runs: no client is built and
\* no model call is made, whatever the model name and the credential.
C2_BlankText ==
    Blank(text) /\ pc # "start" =>
        /\ pc = "done"
        /\ ret = Return(<<"Please enter text.", "", "">>)
        /\ log = <<>>

\* a whitespace-only text with a remote model name and no credential
C2_Witness ==
    /\ pc = "done"
    /\ text = " \n\t"
    /\ model_name = "gemini-2.5-flash"
    /\ GEMINI_API_KEY = PyNone
    /\ ret.value[1] = "Please enter text."

\* C3: when the text is not blank, the model name starts with "gemini" in any
\* letter case and no credential is configured, process_pattern returns the
\* fixed configuration error in the first slot and empty strings in the other
\* two, and no stage is attempted: no client is built, no model call is made.
C3_MissingCredential ==
    /\ ~Blank(text)
    /\ StartsWith(Lower(model_name), "gemini")
    /\ GEMINI_API_KEY \in {PyNone, PyStr("")}
    /\ pc # "start"
    => /\ pc = "done"
       /\ ret = Return(<<"Error: GOOGLE_API_KEY missing.", "", "">>)
       /\ log = <<>>

\* a mixed-case remote model name with an empty credential
C3_Witness ==
    /\ pc = "done"
    /\ text = "I feel torn"
    /\ model_name = "Gemini-Pro"
    /\ GEMINI_API_KEY = PyStr("")
    /\ ret.value[1] = "Error: GOOGLE_API_KEY missing."

\* C4: the stages run in the order Layer 1, Layer 2, Layer 3 as one chain:
\* stage k+1 starts only after stage k ended without raising and its prompt
\* carries stage k's output; each stage builds one client and makes at most
\* one model call; nothing follows a stage that raised (no retry); a run
\* makes at most three model calls.
C4_SequentialChain ==
    /\ \A i, j \in 1..Len(log) : i < j => log[i].stage <= log[j].stage
    /\ \A k \in 1..3 :
          /\ Cardinality(Events("get_model", k)) <= 1
          /\ Cardinality(Events("invoke", k)) <= 1
          /\ Events("raise", k) # {} => Min(Events("raise", k)) = Len(log)
    /\ \A k \in 2..3 :
          Events("get_model", k) # {} =>
             /\ Events("ok", k - 1) # {}
             /\ Min(Events("ok", k - 1)) < Min(Events("get_model", k))
    /\ \A i \in Events("invoke", 1) : log[i].input = [text |-> text]
    /\ \A i \in Events("invoke", 2) : log[i].input = [algebra |-> Output(1)]
    /\ \A i \in Events("invoke", 3) :
          log[i].input = [schedule_json |-> json_dumps(Output(2).composition, 2)]
    /\ Cardinality({i \in 1..Len(log) : log[i].ev = "invoke"}) <= 3

\* a run in which all three stages made their call
C4_Witness ==
    /\ pc = "done"
    /\ Cardinality({i \in 1..Len(log) : log[i].ev = "invoke"}) = 3
    /\ Events("ok", 3) # {}

\* the model answered Layer 2 with a text json.loads rejects
ParseFailed(i) ==
    /\ log[i].ev = "response"
    /\ log[i].stage = 2
    /\ ~log[i].outcome.raised
    /\ ~json_loads(Cleaned(log[i].outcome)).ok

\* C7: a Layer 2 response that cannot be parsed is not a stage failure: the
\* pipeline goes on, slot 2 is not an "Error L2" string, the fallback
\* Schedule is rendered into the report and the same fallback Schedule is
\* what Layer 3 is called with.
C7_ParseFailureNotStageFailure ==
    \A i \in 1..Len(log) :
       ParseFailed(i) =>
          /\ pc \in {"L3", "done"}
          /\ Events("raise", 2) = {}
          /\ IsDegraded(composition, Cleaned(log[i].outcome))
          /\ ~StartsWith(math_report, "Error L2")
          /\ StartsWith(math_report, "### Cognitive Schedule: **Linear**\n*Error: ")
          /\ Find(math_report, "**Intercalation Dynamics:**", 1) # 0
          /\ pc = "done" =>
                /\ ret.value[2] = math_report
                /\ \E j \in Events("invoke", 3) :
                      log[j].input = [schedule_json |-> json_dumps(composition, 2)]

\* a run that ended with generated code after a Layer 2 parse failure
C7_Witness ==
    /\ pc = "done"
    /\ \E i \in 1..Len(log) : ParseFailed(i)
    /\ Events("ok", 3) # {}
    /\ ret.value[3] = "import torch"

\* the pipeline variables while a pure function is checked on its own
Idle ==
    /\ text = ""
    /\ model_name = "llama3"
    /\ GEMINI_API_KEY = PyNone
    /\ pc = "idle"
    /\ algebraic_expr = ""
    /\ math_report = ""
    /\ pytorch_code = ""
    /\ composition = Unset
    /\ ret = NotReturned
    /\ log = <<>>

(***************************************************************************)
(* Inputs of the marker-stripping check: texts assembled from whole        *)
(* markers, marker halves and plain characters.                            *)
(***************************************************************************)
ThinkFragments == {THINK_OPEN, THINK_CLOSE, "<thi", "nk>", "x"}

SeqsUpTo(F, n) == UNION {[1..k -> F] : k \in 0..n}

ThinkTexts == {Concat(fs) : fs \in SeqsUpTo(ThinkFragments, MaxFrags)}

InitStrip ==
    /\ Idle
    /\ fn = "none"
    /\ fn_arg \in ThinkTexts
    /\ fn_ret = ""

StripComposer ==
    /\ fn = "none"
    /\ fn' = "composition.strip_think_tags"
    /\ fn_ret' = strip_think_tags(fn_arg)
    /\ UNCHANGED <<fn_arg, pipeline>>

StripApp ==
    /\ fn = "none"
    /\ fn' = "app.strip_think_tags"
    /\ fn_ret' = app_strip_think_tags(fn_arg)
    /\ UNCHANGED <<fn_arg, pipeline>>

NextStrip == StripComposer \/ StripApp

SpecStrip == InitStrip /\ [][NextStrip]_vars

Stripped == fn \in {"composition.strip_think_tags", "app.strip_think_tags"}

\* C10: stripping is idempotent: a second pass leaves the result of the
\* first pass unchanged, for every input text.
C10_StripIdempotent ==
    Stripped => /\ strip_think_tags(fn_ret) = fn_ret
                /\ app_strip_think_tags(fn_ret) = fn_ret

(***************************************************************************)
(* Inputs of the rendering check: Schedules of every schedule_logic with   *)
(* scores of 0..MaxTracks tracks, the fallback Schedule, and parsed        *)
(* objects that are not Schedules.                                         *)
(***************************************************************************)
RenderLogics == {"Orbital", "Drag", "Adversarial", "Linear", "Stochastic Switching", "Spiral"}

TrackPool == {TrackA, TrackB, TrackPipe}

Malformed ==
    { PyDict(<<"schedule_logic", "score">>,
             <<PyStr("Drag"), PyList(<<PyDict(<<"voice", "mass">>, <<PyStr("V"), PyInt(1)>>)>>)>>),
      PyDict(<<"schedule_logic", "score">>,
             <<PyStr("Orbital"),
               PyList(<<PyDict(<<"formula">>, <<PyInt(7)>>)>>)>>),
      PyDict(<<"schedule_logic", "score">>, <<PyStr("Linear"), PyStr("Se")>>),
      PyDict(<<"score">>, <<PyInt(3)>>) }

RenderSchedules ==
    {Schedule(logic, PyFloat("1.0"), score, "n")
       : logic \in RenderLogics, score \in SeqsUpTo(TrackPool, MaxTracks)}
    \cup {DegradedSchedule("Expecting value: line 1 column 1 (char 0)", "no schedule")}
    \cup Malformed

InitRender ==
    /\ Idle
    /\ fn = "none"
    /\ fn_arg \in RenderSchedules
    /\ fn_ret = ""

Render ==
    /\ fn = "none"
    /\ fn' = "format_latex_report"
    /\ fn_ret' = format_latex_report(fn_arg)
    /\ UNCHANGED <<fn_arg, pipeline>>

NextRender == Render

SpecRender == InitRender /\ [][NextRender]_vars

\* a Schedule of the data model: schedule_logic and math_narrative are
\* strings, score is a list of tracks with voice, symbol, mass and a formula
\* string
IsTrack(v) ==
    /\ v.t = "dict"
    /\ \A k \in {"voice", "symbol", "mass", "formula"} : HasKey(v, k)
    /\ DictGet(v, "formula").t = "str"
    /\ DictGet(v, "mass").t \in {"int", "float"}

IsSchedule(v) ==
    /\ v.t = "dict"
    /\ \A k \in {"schedule_logic", "score", "math_narrative"} : HasKey(v, k)
    /\ DictGet(v, "schedule_logic").t = "str"
    /\ DictGet(v, "score").t = "list"
    /\ \A i \in 1..Len(DictGet(v, "score").items) : IsTrack(DictGet(v, "score").items[i])

Rendered == fn = "format_latex_report"

LogicOf(v) == DictGet(v, "schedule_logic").s
ScoreOf(v) == DictGet(v, "score").items

DYNAMICS == "\n**Intercalation Dynamics:**\n"

\* what a report carries after the heading of the master equation
EquationOf(report) == DropFirst(report, Find(report, DYNAMICS, 1) + Len(DYNAMICS) - 1)

\* the master equation of a Schedule without tracks
Skeleton(logic) ==
    CASE logic = "Orbital" -> "$$ J(\\theta) = \\sum_{t} () $$"
      [] logic = "Drag" -> "$$ J(\\theta) = \\int () dt $$"
      [] logic = "Adversarial" -> "$$ J(\\theta) = \\max_\\pi () $$"
      [] OTHER -> "$$ J(\\theta) =  $$"

\* C8: for every Schedule (the fallback one included), with a score of any
\* length and any schedule_logic, format_latex_report does not raise; the
\* report starts with the title line naming schedule_logic and ends with a
\* master equation opened by "$$ " and closed by " $$"; without tracks the
\* equation is the bare skeleton of its schedule_logic.
C8_RenderNeverRaises ==
    Rendered /\ IsSchedule(fn_arg) =>
        /\ ~fn_ret.raised
        /\ StartsWith(fn_ret.value, "### Cognitive Schedule: **" \o LogicOf(fn_arg) \o "**\n")
        /\ Find(fn_ret.value, DYNAMICS, 1) # 0
        /\ StartsWith(EquationOf(fn_ret.value), "$$ J(\\theta) = ")
        /\ EndsWith(EquationOf(fn_ret.value), " $$")
        /\ Find(EquationOf(fn_ret.value), "\n", 1) = 0
        /\ ScoreOf(fn_arg) = <<>> => EquationOf(fn_ret.value) = Skeleton(LogicOf(fn_arg))

\* a Drag Schedule without tracks has been rendered
C8_Witness ==
    /\ Rendered
    /\ IsSchedule(fn_arg)
    /\ LogicOf(fn_arg) = "Drag"
    /\ ScoreOf(fn_arg) = <<>>
    /\ ~fn_ret.raised

\* mass \cdot [formula] of one track
AdversarialTerm(track) ==
    Format(DictGet(track, "mass")) \o " \\cdot [" \o DictGet(track, "formula").s \o "]"

\* the first n terms: the first as it is, every later one after " - "
RECURSIVE AdversarialBody(_, _)
AdversarialBody(score, n) ==
    IF n = 0 THEN ""
    ELSE IF n = 1 THEN AdversarialTerm(score[1])
    ELSE AdversarialBody(score, n - 1) \o " - " \o AdversarialTerm(score[n])

\* C9: for schedule_logic "Adversarial" the master equation is
\* J(\theta) = \max_\pi (body), where body is the first track's
\* mass \cdot [formula] followed, for each later track in order, by
\* " - mass \cdot [formula]", with no "+" between terms; the score
\* [{mass 5, formula A}, {mass 3, formula B}] gives 5 \cdot [A] - 3 \cdot [B].
C9_AdversarialBody ==
    Rendered /\ IsSchedule(fn_arg) /\ LogicOf(fn_arg) = "Adversarial" =>
        /\ ~fn_ret.raised
        /\ EquationOf(fn_ret.value)
             = "$$ J(\\theta) = \\max_\\pi ("
               \o AdversarialBody(ScoreOf(fn_arg), Len(ScoreOf(fn_arg))) \o ") $$"
        /\ Find(EquationOf(fn_ret.value), "+", 1) = 0
        /\ ScoreOf(fn_arg) = <<TrackA, TrackB>> =>
              EquationOf(fn_ret.value)
                = "$$ J(\\theta) = \\max_\\pi (5 \\cdot [A] - 3 \\cdot [B]) $$"

\* the Adversarial Schedule of masses 5 and 3 has been rendered
C9_Witness ==
    /\ Rendered
    /\ IsSchedule(fn_arg)
    /\ LogicOf(fn_arg) = "Adversarial"
    /\ ScoreOf(fn_arg) = <<TrackA, TrackB>>
    /\ ~fn_ret.raised
    /\ Find(fn_ret.value, "5 \\cdot [A] - 3 \\cdot [B]", 1) # 0

(***************************************************************************)
(* Inputs of the compose check: what self.chain.invoke may do, a text      *)
(* assembled from an optional reasoning span, an optional opening fence, a *)
(* body and an optional closing fence, or an exception.                    *)
(***************************************************************************)
ThinkPrefixes == {"", "<think>{\"a\": 1}</think>", "<think>open"}

Openers == {"", FENCE \o "json\n", FENCE \o "\n", FENCE \o "JSON\n", "\n  "}

Closers == {"", "\n" \o FENCE, "\n" \o FENCE \o "\n", FENCE \o FENCE}

ComposeBodies ==
    { json_dumps(Schedule("Adversarial", PyFloat("1.0"), <<TrackA, TrackB>>, "n"), 2),
      json_dumps(Schedule("Drag", PyInt(2), <<TrackPipe>>, "n"), -1),
      "{}", "[1, 2]", "null", "\"text\"", "3.50", "NaN",
      "", "I cannot produce a schedule.", "{\"score\": [,]}", "{\"a\": 1,}", "{'a': 1}",
      "{\"a\" 1}", "[1, 2", "{\"a\": \"b\nc\"}", "{\"a\": 1} trailing", "\"unterminated",
      "{\"a\": \"\\x\"}" }

ComposeResponses ==
    {t \o o \o b \o c : t \in ThinkPrefixes, o \in Openers, b \in ComposeBodies, c \in Closers}

InitCompose ==
    /\ Idle
    /\ fn = "none"
    /\ fn_arg \in Outcomes(ComposeResponses)
    /\ fn_ret = ""

Compose ==
    /\ fn = "none"
    /\ fn' = "compose"
    /\ fn_ret' = compose(fn_arg)
    /\ UNCHANGED <<fn_arg, pipeline>>

NextCompose == Compose

SpecCompose == InitCompose /\ [][NextCompose]_vars

Composed == fn = "compose"

C6_ComposeAlwaysSchedule ==
    Composed => ~fn_ret.raised /\ IsSchedule(fn_ret.value)

\* C6, amended: when the model call returns a text, compose returns without
\* raising: the fallback Schedule when json.loads rejects the stripped text,
\* and otherwise the parsed value as it is, Schedule or not; when the model
\* call raises, the exception leaves compose unchanged.
C6_ComposeReturnsOnText ==
    Composed =>
        IF fn_arg.raised
        THEN fn_ret = fn_arg
        ELSE /\ ~fn_ret.raised
             /\ IF json_loads(Cleaned(fn_arg)).ok
                THEN fn_ret.value = json_loads(Cleaned(fn_arg)).v
                ELSE IsDegraded(fn_ret.value, Cleaned(fn_arg))

\* compose returned a parsed value that is not a Schedule
C6_Witness ==
    /\ Composed
    /\ ~fn_arg.raised
    /\ ~fn_ret.raised
    /\ fn_ret.value = PyList(<<PyInt(1), PyInt(2)>>)

(***************************************************************************)
(* Inputs of the cleanup check: the reports rendered from Schedules of     *)
(* one track whose formula carries emphasis, dollar or backquote           *)
(* characters, as process_pattern hands them to clean_latex_formatting,    *)
(* and texts assembled from the characters the cleanup rewrites and the    *)
(* heading words.                                                          *)
(***************************************************************************)
MaxCleanFrags == 4

CleanFragments == {BQ, "$", "*", "[", "Intercalation Dynamics", "x"}

CleanFormulas == {"A", "a*b", "*$x", "$x$", BQ \o "*" \o BQ \o BQ}

CleanSchedules ==
    {Schedule(logic, PyFloat("1.0"),
              <<Track("Voice 1 (Se)", "ExplorationObjective", PyInt(5), f)>>, "n")
       : logic \in RenderLogics, f \in CleanFormulas}

CleanTexts ==
    {format_latex_report(s).value : s \in CleanSchedules}
    \cup {Concat(fs) : fs \in SeqsUpTo(CleanFragments, MaxCleanFrags)}

InitClean ==
    /\ Idle
    /\ fn = "none"
    /\ fn_arg \in CleanTexts
    /\ fn_ret = ""

Clean ==
    /\ fn = "none"
    /\ fn' = "clean_latex_formatting"
    /\ fn_ret' = clean_latex_formatting(fn_arg)
    /\ UNCHANGED <<fn_arg, pipeline>>

NextClean == Clean

SpecClean == InitClean /\ [][NextClean]_vars

CleanupDone == fn = "clean_latex_formatting"

\* the heading as the cleanup writes it
CLEAN_HEADING == "**Intercalation Dynamics:**\n\n"

\* the text that follows the first heading of a cleaned report
AfterHeading(r) ==
    (CHOOSE it \in { DropFirst(r, q + Len(CLEAN_HEADING) - 1)
         : q \in {Find(r, CLEAN_HEADING, 1)} } : TRUE)

\* a text enclosed in a pair of display-math delimiters
DisplayWrapped(s) ==
    \/ Len(s) >= 4 /\ StartsWith(s, "$$") /\ EndsWith(s, "$$")
    \/ Len(s) >= 4 /\ StartsWith(s, "\\[") /\ EndsWith(s, "\\]")

\* C11: the cleanup pass is idempotent, a second pass leaves the result of
\* the first unchanged for every report text, and in a cleaned text that has
\* the "Intercalation Dynamics" heading the text after the heading is
\* enclosed in a pair of display-math delimiters.
C11_CleanupIdempotent ==
    CleanupDone =>
        /\ clean_latex_formatting(fn_ret) = fn_ret
        /\ Find(fn_ret, CLEAN_HEADING, 1) # 0 => DisplayWrapped(AfterHeading(fn_ret))

(***************************************************************************)
(* The symbols of the Schedule that Layer 2 renders and Layer 3 serialises *)
(***************************************************************************)
\* the symbol values of the tracks of a parsed value
Symbols(v) ==
    IF v.t = "dict" /\ HasKey(v, "score") /\ DictGet(v, "score").t = "list"
    THEN {DictGet(DictGet(v, "score").items[i], "symbol")
            : i \in {j \in 1..Len(DictGet(v, "score").items) :
                       /\ DictGet(v, "score").items[j].t = "dict"
                       /\ HasKey(DictGet(v, "score").items[j], "symbol")}}
    ELSE {}

\* C12: every symbol of a track of the parsed response that Layer 2 has
\* rendered and handed on to Layer 3 is one of the eight objective classes:
\* a response with an unmapped symbol is not accepted as the composition.
C12_SymbolsMapped ==
    composition # Unset => Symbols(composition) \subseteq {PyStr(c) : c \in OBJECTIVE_CLASSES}

(***************************************************************************)
(* Inputs of the round-trip check: Schedules of the data model with scores *)
(* of 0..MaxTracks tracks, an integer or a float global_frequency, and a   *)
(* math_narrative that holds quotes, a backslash, a newline and a fence.   *)
(***************************************************************************)
RoundTripSchedules ==
    {Schedule(logic, freq, score, narrative)
       : logic \in {"Orbital", "Linear"},
         freq \in {PyFloat("1.0"), PyInt(40)},
         score \in SeqsUpTo(TrackPool, MaxTracks),
         narrative \in {"n", "a \"b\"\n" \o FENCE \o "json \\omega " \o FENCE}}

InitRoundTrip ==
    /\ Idle
    /\ fn = "none"
    /\ fn_arg \in RoundTripSchedules
    /\ fn_ret = ""

\* json.dumps(s, indent=2), fenced, through _parse_json_safely
RoundTripIndented ==
    /\ fn = "none"
    /\ fn' = "round trip, indent=2"
    /\ fn_ret' = parse_json_safely(Fenced(json_dumps(fn_arg, 2)))
    /\ UNCHANGED <<fn_arg, pipeline>>

\* json.dumps(s), fenced, through _parse_json_safely
RoundTripCompact ==
    /\ fn = "none"
    /\ fn' = "round trip, indent=None"
    /\ fn_ret' = parse_json_safely(Fenced(json_dumps(fn_arg, -1)))
    /\ UNCHANGED <<fn_arg, pipeline>>

NextRoundTrip == RoundTripIndented \/ RoundTripCompact

SpecRoundTrip == InitRoundTrip /\ [][NextRoundTrip]_vars

RoundTripped == fn \in {"round trip, indent=2", "round trip, indent=None"}

\* C13: for every valid Schedule s, serialising s to JSON, wrapping the text
\* in a fenced block with a json-tagged opening fence and a closing fence,
\* and passing it through the fence stripping and the parse returns an
\* object equal to s, and not the fallback Schedule of a parse failure.
C13_FenceRoundTrip ==
    RoundTripped =>
        /\ fn_ret = fn_arg
        /\ ~HasKey(fn_ret, "raw_output")

\* a Schedule of two tracks or more, with a narrative that holds a fence,
\* came back from its indented, fenced serialisation
C13_Witness ==
    /\ fn = "round trip, indent=2"
    /\ fn_ret = fn_arg
    /\ fn_arg.t = "dict"
    /\ Len(DictGet(fn_arg, "score").items) >= 2
    /\ Find(DictGet(fn_arg, "math_narrative").s, FENCE \o "json", 1) # 0
====
